---- MODULE Spec2Model ----
(***************************************************************************)
(* Fixed-point decimals of ic-e8s: the static-precision type ECs<D>        *)
(* (src/src/c.rs), the dynamic-precision type EDs (src/src/d.rs) and the   *)
(* table of powers of ten ES_BASES (src/src/lib.rs).                       *)
(*                                                                         *)
(* A mantissa is a num_bigint::BigUint.  TLC's integers are 32 bits wide   *)
(* and 10^31 does not fit, so a BigUint is modelled the way num_bigint     *)
(* stores it: a little-endian sequence of digits without trailing zero     *)
(* digits (zero is the empty sequence), here with digits in base 10^4.     *)
(***************************************************************************)
EXTENDS Integers, Sequences, FiniteSets, TLC

----------------------------------------------------------------------------
(* BigUint: arbitrary-precision naturals                                   *)

\* the radix of one digit (num_bigint: BigDigit)
LIMB == 10000

Max(a, b) == IF a >= b THEN a ELSE b
Min(a, b) == IF a <= b THEN a ELSE b

\* the i-th digit of a, zero past its length
Digit(a, i) == IF i <= Len(a) THEN a[i] ELSE 0

RECURSIVE Normalized(_)
\* BigUint::normalized: strip the most significant zero digits
Normalized(s) ==
  IF s = <<>> THEN <<>>
  ELSE IF s[Len(s)] = 0 THEN Normalized(SubSeq(s, 1, Len(s) - 1))
  ELSE s

RECURSIVE BigFrom(_)
\* BigUint::from(u64): the digits of a machine integer
BigFrom(n) == IF n = 0 THEN <<>> ELSE <<n % LIMB>> \o BigFrom(n \div LIMB)

RECURSIVE Carried(_, _, _)
\* propagate carries (or borrows: \div floors) through column values
Carried(cols, i, k) ==
  IF i > Len(cols) THEN BigFrom(k)
  ELSE LET t == cols[i] + k IN <<t % LIMB>> \o Carried(cols, i + 1, t \div LIMB)

RECURSIVE CmpFrom(_, _, _)
CmpFrom(a, b, i) ==
  IF i = 0 THEN 0
  ELSE IF a[i] < b[i] THEN -1
  ELSE IF a[i] > b[i] THEN 1
  ELSE CmpFrom(a, b, i - 1)

\* Ord for BigUint: -1, 0 or 1
BigCmp(a, b) ==
  IF Len(a) < Len(b) THEN -1
  ELSE IF Len(a) > Len(b) THEN 1
  ELSE CmpFrom(a, b, Len(a))

BigLe(a, b) == BigCmp(a, b) <= 0
BigLt(a, b) == BigCmp(a, b) < 0

BIG_ZERO == <<>>
BIG_ONE == <<1>>

\* a + b
BigAdd(a, b) ==
  Normalized(Carried([i \in 1..Max(Len(a), Len(b)) |-> Digit(a, i) + Digit(b, i)], 1, 0))

\* a - b, for a >= b (the caller decides what a < b does)
BigSub(a, b) ==
  Normalized(Carried([i \in 1..Len(a) |-> a[i] - Digit(b, i)], 1, 0))

RECURSIVE ColumnSum(_, _, _, _)
\* the sum of a[i] * b[k + 1 - i] over i in lo..hi
ColumnSum(a, b, k, i) ==
  IF i > Min(k, Len(a)) THEN 0
  ELSE a[i] * b[k + 1 - i] + ColumnSum(a, b, k, i + 1)

\* a * b
BigMul(a, b) ==
  IF a = <<>> \/ b = <<>> THEN <<>>
  ELSE Normalized(Carried(
         [k \in 1..(Len(a) + Len(b) - 1) |-> ColumnSum(a, b, k, Max(1, k + 1 - Len(b)))],
         1, 0))

RECURSIVE ShortDiv(_, _, _, _, _)
\* division by a single digit d, most significant digit first; q collects
\* the quotient digits, r is the running remainder
ShortDiv(a, d, i, q, r) ==
  IF i = 0 THEN Normalized(q)
  ELSE LET t == r * LIMB + a[i]
       IN IF t < d THEN ShortDiv(a, d, i - 1, <<0>> \o q, t)
          ELSE ShortDiv(a, d, i - 1, <<t \div d>> \o q, t % d)

RECURSIVE QuotDigit(_, _, _)
\* the largest q <= qhat with b * q <= r (qhat overestimates by at most 2
\* once the divisor's leading digit is at least LIMB / 2)
QuotDigit(r, b, qhat) ==
  IF BigLe(BigMul(b, <<qhat>>), r) THEN qhat ELSE QuotDigit(r, b, qhat - 1)

RECURSIVE LongDiv(_, _, _, _, _)
\* schoolbook division (Knuth's algorithm D) by a divisor b of two or more
\* digits whose leading digit is at least LIMB / 2; q collects the quotient
\* digits, r is the running remainder
LongDiv(a, b, i, q, r) ==
  IF i = 0 THEN Normalized(q)
  ELSE LET n  == Len(b)
           r1 == Normalized(<<a[i]>> \o r)
           d  == QuotDigit(r1, b,
                   Min(LIMB - 1, (Digit(r1, n + 1) * LIMB + Digit(r1, n)) \div b[n]))
       IN IF BigLt(r1, b) THEN LongDiv(a, b, i - 1, <<0>> \o q, r1)
          ELSE IF d = 0 THEN LongDiv(a, b, i - 1, <<0>> \o q, r1)
          ELSE LongDiv(a, b, i - 1, <<d>> \o q, BigSub(r1, BigMul(b, <<d>>)))

\* a / b truncated, for b /= 0 (the caller decides what b = 0 does)
BigDiv(a, b) ==
  IF BigLt(a, b) THEN <<>>
  ELSE IF Len(b) = 1 THEN ShortDiv(a, b[1], Len(a), <<>>, 0)
  ELSE LET f == LIMB \div (b[Len(b)] + 1)
           an == BigMul(a, <<f>>)
       IN LongDiv(an, BigMul(b, <<f>>), Len(an), <<>>, <<>>)

\* a % b, for b /= 0
BigRem(a, b) == BigSub(a, BigMul(BigDiv(a, b), b))

RECURSIVE Newton(_, _)
\* Newton's iteration from a guess x >= sqrt(n), down to the fixpoint
Newton(n, x) ==
  LET y == BigDiv(BigAdd(x, BigDiv(n, x)), <<2>>)
  IN IF BigLt(y, x) THEN Newton(n, y) ELSE x

\* BigUint::sqrt: the truncated square root
BigSqrt(n) ==
  IF n = <<>> THEN <<>>
  ELSE Newton(n, [i \in 1..((Len(n) + 1) \div 2 + 1) |->
                    IF i = (Len(n) + 1) \div 2 + 1 THEN 1 ELSE 0])

RECURSIVE BigPow(_, _)
\* BigUint::pow
BigPow(a, e) == IF e = 0 THEN BIG_ONE ELSE BigMul(a, BigPow(a, e - 1))

RECURSIVE SmallRem(_, _, _, _)
\* a % d for a single digit d, most significant digit first
SmallRem(a, d, i, r) ==
  IF i = 0 THEN r ELSE SmallRem(a, d, i - 1, (r * LIMB + a[i]) % d)

RECURSIVE ToRadixLe(_, _)
\* BigUint::to_radix_le: the radix-r digits of a, least significant first
ToRadixLe(a, r) ==
  IF a = <<>> THEN <<>>
  ELSE <<SmallRem(a, r, Len(a), 0)>> \o ToRadixLe(BigDiv(a, <<r>>), r)

RECURSIVE FromRadixLe(_, _, _)
\* BigUint::from_radix_le: the number whose radix-r digits from index i are ds
FromRadixLe(ds, r, i) ==
  IF i > Len(ds) THEN <<>>
  ELSE BigAdd(BigFrom(ds[i]), BigMul(FromRadixLe(ds, r, i + 1), <<r>>))

----------------------------------------------------------------------------
(* lib.rs: the table of powers of ten                                      *)

\* the largest supported number of decimals (the table has 32 entries)
MAX_DECIMALS == 31

\* ES_BASES: index i holds 10^i
ES_BASES == [i \in 0..MAX_DECIMALS |-> BigPow(<<10>>, i)]

\* `as u8`: a usize truncated to 8 bits
AsU8(n) == n % 256

\* a panic (unreachable!, BigUint underflow, division by zero, expect)
PANIC == [ty |-> "panic"]
Panicked(r) == r.ty = "panic"

\* a BigUint handed back by a function that may panic instead
Big(v) == [ty |-> "BigUint", val |-> v]

----------------------------------------------------------------------------
(* d.rs: EDs, the decimal count carried at run time                        *)

\* the struct literal EDs { val, decimals }
EDs(val, decimals) == [ty |-> "EDs", val |-> val, decimals |-> decimals]

\* the struct literal ECs::<D> { val }
ECs(D, val) == [ty |-> "ECs", D |-> D, val |-> val]

EDs_new(val, decimals) ==
  IF decimals > MAX_DECIMALS THEN PANIC ELSE EDs(val, decimals)

EDs_base(decimals) ==
  IF decimals > MAX_DECIMALS THEN PANIC ELSE Big(ES_BASES[decimals])

EDs_zero(decimals) == EDs_new(BIG_ZERO, decimals)

EDs_one(decimals) ==
  LET base == EDs_base(decimals)
  IN IF Panicked(base) THEN PANIC ELSE EDs(base.val, decimals)

EDs_f0_1(decimals) ==
  LET base == EDs_base(decimals)
  IN IF Panicked(base) THEN PANIC
     ELSE EDs_new(BigDiv(base.val, BigFrom(10)), decimals)

EDs_f0_2(decimals) ==
  LET base == EDs_base(decimals)
  IN IF Panicked(base) THEN PANIC
     ELSE EDs_new(BigDiv(base.val, BigFrom(5)), decimals)

EDs_f0_25(decimals) ==
  LET base == EDs_base(decimals)
  IN IF Panicked(base) THEN PANIC
     ELSE EDs_new(BigDiv(base.val, BigFrom(4)), decimals)

EDs_f0_3(decimals) ==
  LET base == EDs_base(decimals)
  IN IF Panicked(base) THEN PANIC
     ELSE EDs_new(BigDiv(BigMul(base.val, BigFrom(3)), BigFrom(10)), decimals)

EDs_f0_33(decimals) ==
  LET base == EDs_base(decimals)
  IN IF Panicked(base) THEN PANIC
     ELSE EDs_new(BigDiv(base.val, BigFrom(3)), decimals)

EDs_f0_4(decimals) ==
  LET base == EDs_base(decimals)
  IN IF Panicked(base) THEN PANIC
     ELSE EDs_new(BigDiv(BigMul(base.val, BigFrom(2)), BigFrom(5)), decimals)

EDs_f0_5(decimals) ==
  LET base == EDs_base(decimals)
  IN IF Panicked(base) THEN PANIC
     ELSE EDs_new(BigDiv(base.val, BigFrom(2)), decimals)

EDs_f0_6(decimals) ==
  LET base == EDs_base(decimals)
  IN IF Panicked(base) THEN PANIC
     ELSE EDs_new(BigDiv(BigMul(base.val, BigFrom(3)), BigFrom(5)), decimals)

EDs_f0_67(decimals) ==
  LET base == EDs_base(decimals)
  IN IF Panicked(base) THEN PANIC
     ELSE EDs_new(BigDiv(BigMul(base.val, BigFrom(2)), BigFrom(3)), decimals)

EDs_f0_7(decimals) ==
  LET base == EDs_base(decimals)
  IN IF Panicked(base) THEN PANIC
     ELSE EDs_new(BigDiv(BigMul(base.val, BigFrom(7)), BigFrom(10)), decimals)

EDs_f0_75(decimals) ==
  LET base == EDs_base(decimals)
  IN IF Panicked(base) THEN PANIC
     ELSE EDs_new(BigDiv(BigMul(base.val, BigFrom(3)), BigFrom(4)), decimals)

EDs_f0_8(decimals) ==
  LET base == EDs_base(decimals)
  IN IF Panicked(base) THEN PANIC
     ELSE EDs_new(BigDiv(BigMul(base.val, BigFrom(4)), BigFrom(5)), decimals)

EDs_f0_9(decimals) ==
  LET base == EDs_base(decimals)
  IN IF Panicked(base) THEN PANIC
     ELSE EDs_new(BigDiv(BigMul(base.val, BigFrom(9)), BigFrom(10)), decimals)

EDs_two(decimals) ==
  LET base == EDs_base(decimals)
  IN IF Panicked(base) THEN PANIC
     ELSE EDs_new(BigMul(base.val, BigFrom(2)), decimals)

EDs_sqrt(self) ==
  LET base == EDs_base(self.decimals)
  IN IF Panicked(base) THEN PANIC
     ELSE LET whole      == BigDiv(self.val, base.val)
              sqrt_whole == BigSqrt(whole)
          IN EDs_new(BigMul(sqrt_whole, base.val), self.decimals)

\* D is the const generic (a usize) of the requested ECs<D>
EDs_to_const(self, D) ==
  IF self.decimals # AsU8(D) THEN PANIC ELSE ECs(D, self.val)

\* variant of to_decimals: dropped digits round up
EDs_to_decimals_rounding_up(self, new_decimals) ==
  IF new_decimals = self.decimals THEN self
  ELSE LET mul  == ~(self.decimals > new_decimals)
           dif  == IF self.decimals > new_decimals
                   THEN self.decimals - new_decimals
                   ELSE new_decimals - self.decimals
           base == EDs_base(dif)
       IN IF Panicked(base) THEN PANIC
          ELSE EDs(IF mul THEN BigMul(self.val, base.val)
                          ELSE BigDiv(BigAdd(self.val, BigSub(base.val, BIG_ONE)),
                                      base.val),
                   new_decimals)

EDs_to_decimals(self, new_decimals) ==
  IF new_decimals = self.decimals THEN self
  ELSE LET mul  == ~(self.decimals > new_decimals)
           dif  == IF self.decimals > new_decimals
                   THEN self.decimals - new_decimals
                   ELSE new_decimals - self.decimals
           base == EDs_base(dif)
       IN IF Panicked(base) THEN PANIC
          ELSE EDs(IF mul THEN BigMul(self.val, base.val)
                          ELSE BigDiv(self.val, base.val),
                   new_decimals)

\* impl Add for &EDs
EDs_add(self, rhs) ==
  IF self.decimals # rhs.decimals THEN PANIC
  ELSE EDs_new(BigAdd(self.val, rhs.val), self.decimals)

\* impl AddAssign<&EDs> for EDs: the value of self afterwards
EDs_add_assign(self, rhs) ==
  IF self.decimals # rhs.decimals THEN PANIC
  ELSE EDs(BigAdd(self.val, rhs.val), self.decimals)

\* impl Sub for &EDs (BigUint's subtraction panics below zero)
EDs_sub(self, rhs) ==
  IF self.decimals # rhs.decimals THEN PANIC
  ELSE IF BigLt(self.val, rhs.val) THEN PANIC
  ELSE EDs_new(BigSub(self.val, rhs.val), self.decimals)

\* impl SubAssign<&EDs> for EDs
EDs_sub_assign(self, rhs) ==
  IF self.decimals # rhs.decimals THEN PANIC
  ELSE IF BigLt(self.val, rhs.val) THEN PANIC
  ELSE EDs(BigSub(self.val, rhs.val), self.decimals)

\* variant of Mul for &EDs: the product left unscaled
EDs_mul_unscaled(self, rhs) ==
  IF self.decimals # rhs.decimals THEN PANIC
  ELSE EDs_new(BigMul(self.val, rhs.val), self.decimals)

\* impl Mul for &EDs
EDs_mul(self, rhs) ==
  IF self.decimals # rhs.decimals THEN PANIC
  ELSE LET base == EDs_base(self.decimals)
       IN IF Panicked(base) THEN PANIC
          ELSE EDs_new(BigDiv(BigMul(self.val, rhs.val), base.val), self.decimals)

\* variant of MulAssign<&EDs>: the operand rescaled instead of refused
EDs_mul_assign_rescaling(self, rhs) ==
  LET base == EDs_base(self.decimals)
      r    == EDs_to_decimals(rhs, self.decimals)
  IN IF Panicked(base) \/ Panicked(r) THEN PANIC
     ELSE EDs(BigDiv(BigMul(self.val, r.val), base.val), self.decimals)

\* impl MulAssign<&EDs> for EDs
EDs_mul_assign(self, rhs) ==
  IF self.decimals # rhs.decimals THEN PANIC
  ELSE LET base == EDs_base(self.decimals)
       IN IF Panicked(base) THEN PANIC
          ELSE EDs(BigDiv(BigMul(self.val, rhs.val), base.val), self.decimals)

\* impl Div for &EDs (BigUint's division panics on a zero divisor)
EDs_div(self, rhs) ==
  IF self.decimals # rhs.decimals THEN PANIC
  ELSE LET base == EDs_base(self.decimals)
       IN IF Panicked(base) \/ rhs.val = BIG_ZERO THEN PANIC
          ELSE EDs_new(BigDiv(BigMul(self.val, base.val), rhs.val), self.decimals)

\* impl DivAssign<&EDs> for EDs
EDs_div_assign(self, rhs) ==
  IF self.decimals # rhs.decimals THEN PANIC
  ELSE LET base == EDs_base(self.decimals)
       IN IF Panicked(base) \/ rhs.val = BIG_ZERO THEN PANIC
          ELSE EDs(BigDiv(BigMul(self.val, base.val), rhs.val), self.decimals)

\* impl Mul<u64> for &EDs: rhs is a plain integer
EDs_mul_u64(self, rhs) == EDs_new(BigMul(self.val, BigFrom(rhs)), self.decimals)

\* impl MulAssign<u64> for EDs
EDs_mul_assign_u64(self, rhs) == EDs(BigMul(self.val, BigFrom(rhs)), self.decimals)

\* impl Div<u64> for &EDs
EDs_div_u64(self, rhs) ==
  IF rhs = 0 THEN PANIC ELSE EDs_new(BigDiv(self.val, BigFrom(rhs)), self.decimals)

\* impl DivAssign<u64> for EDs
EDs_div_assign_u64(self, rhs) ==
  IF rhs = 0 THEN PANIC ELSE EDs(BigDiv(self.val, BigFrom(rhs)), self.decimals)

\* impl From<(u64, u8)> for EDs
EDs_from(value, decimals) == EDs_new(BigFrom(value), decimals)

\* an Ordering: -1 (Less), 0 (Equal) or 1 (Greater)
Ordering(c) == [ty |-> "Ordering", ord |-> c]

Bool(b) == [ty |-> "bool", b |-> b]

\* derive(PartialEq, Eq) on EDs: field by field
EDs_eq(self, other) == Bool(self.val = other.val /\ self.decimals = other.decimals)

\* variant of the derived Ord: decimals compared before val
EDs_cmp_decimals_first(self, other) ==
  IF self.decimals < other.decimals THEN Ordering(-1)
  ELSE IF self.decimals > other.decimals THEN Ordering(1)
  ELSE Ordering(BigCmp(self.val, other.val))

\* derive(PartialOrd, Ord) on EDs: the fields in the order they are
\* declared, val and then decimals
EDs_cmp(self, other) ==
  LET c == BigCmp(self.val, other.val)
  IN IF c # 0 THEN Ordering(c)
     ELSE IF self.decimals < other.decimals THEN Ordering(-1)
     ELSE IF self.decimals > other.decimals THEN Ordering(1)
     ELSE Ordering(0)

\* PartialOrd::lt and PartialOrd::le, from the derived comparison
EDs_lt(self, other) == Bool(EDs_cmp(self, other).ord < 0)
EDs_le(self, other) == Bool(EDs_cmp(self, other).ord <= 0)

----------------------------------------------------------------------------
(* c.rs: ECs<D>, the decimal count D fixed by the type                     *)

ECs_new(D, val) == ECs(D, val)

ECs_base(D) == IF D > MAX_DECIMALS THEN PANIC ELSE Big(ES_BASES[D])

ECs_base_d(decimals) ==
  IF decimals > MAX_DECIMALS THEN PANIC ELSE Big(ES_BASES[decimals])

ECs_zero(D) == ECs_new(D, BIG_ZERO)

ECs_one(D) ==
  LET base == ECs_base(D) IN IF Panicked(base) THEN PANIC ELSE ECs(D, base.val)

ECs_f0_1(D) ==
  LET base == ECs_base(D)
  IN IF Panicked(base) THEN PANIC
     ELSE ECs_new(D, BigDiv(base.val, BigFrom(10)))

ECs_f0_2(D) ==
  LET base == ECs_base(D)
  IN IF Panicked(base) THEN PANIC
     ELSE ECs_new(D, BigDiv(base.val, BigFrom(5)))

ECs_f0_25(D) ==
  LET base == ECs_base(D)
  IN IF Panicked(base) THEN PANIC
     ELSE ECs_new(D, BigDiv(base.val, BigFrom(4)))

ECs_f0_3(D) ==
  LET base == ECs_base(D)
  IN IF Panicked(base) THEN PANIC
     ELSE ECs_new(D, BigDiv(BigMul(base.val, BigFrom(3)), BigFrom(10)))

ECs_f0_33(D) ==
  LET base == ECs_base(D)
  IN IF Panicked(base) THEN PANIC
     ELSE ECs_new(D, BigDiv(base.val, BigFrom(3)))

ECs_f0_4(D) ==
  LET base == ECs_base(D)
  IN IF Panicked(base) THEN PANIC
     ELSE ECs_new(D, BigDiv(BigMul(base.val, BigFrom(2)), BigFrom(5)))

ECs_f0_5(D) ==
  LET base == ECs_base(D)
  IN IF Panicked(base) THEN PANIC
     ELSE ECs_new(D, BigDiv(base.val, BigFrom(2)))

ECs_f0_6(D) ==
  LET base == ECs_base(D)
  IN IF Panicked(base) THEN PANIC
     ELSE ECs_new(D, BigDiv(BigMul(base.val, BigFrom(3)), BigFrom(5)))

ECs_f0_67(D) ==
  LET base == ECs_base(D)
  IN IF Panicked(base) THEN PANIC
     ELSE ECs_new(D, BigDiv(BigMul(base.val, BigFrom(2)), BigFrom(3)))

ECs_f0_7(D) ==
  LET base == ECs_base(D)
  IN IF Panicked(base) THEN PANIC
     ELSE ECs_new(D, BigDiv(BigMul(base.val, BigFrom(7)), BigFrom(10)))

ECs_f0_75(D) ==
  LET base == ECs_base(D)
  IN IF Panicked(base) THEN PANIC
     ELSE ECs_new(D, BigDiv(BigMul(base.val, BigFrom(3)), BigFrom(4)))

ECs_f0_8(D) ==
  LET base == ECs_base(D)
  IN IF Panicked(base) THEN PANIC
     ELSE ECs_new(D, BigDiv(BigMul(base.val, BigFrom(4)), BigFrom(5)))

ECs_f0_9(D) ==
  LET base == ECs_base(D)
  IN IF Panicked(base) THEN PANIC
     ELSE ECs_new(D, BigDiv(BigMul(base.val, BigFrom(9)), BigFrom(10)))

ECs_two(D) ==
  LET base == ECs_base(D)
  IN IF Panicked(base) THEN PANIC
     ELSE ECs_new(D, BigMul(base.val, BigFrom(2)))

\* variant of sqrt: the root of the whole mantissa, fraction included
ECs_sqrt_fractional(self) ==
  LET base == ECs_base(self.D)
  IN IF Panicked(base) THEN PANIC
     ELSE ECs_new(self.D, BigSqrt(BigMul(self.val, base.val)))

ECs_sqrt(self) ==
  LET base == ECs_base(self.D)
  IN IF Panicked(base) THEN PANIC
     ELSE LET whole      == BigDiv(self.val, base.val)
              sqrt_whole == BigSqrt(whole)
          IN ECs_new(self.D, BigMul(sqrt_whole, base.val))

ECs_to_dynamic(self) == EDs_new(self.val, AsU8(self.D))

\* D1 is the const generic of the requested ECs<D1>
ECs_to_decimals(self, D1) ==
  IF D1 = self.D THEN ECs_new(D1, self.val)
  ELSE LET mul  == ~(self.D > D1)
           dif  == IF self.D > D1 THEN self.D - D1 ELSE D1 - self.D
           base == ECs_base_d(AsU8(dif))
       IN IF Panicked(base) THEN PANIC
          ELSE IF mul THEN ECs_new(D1, BigMul(self.val, base.val))
          ELSE ECs_new(D1, BigDiv(self.val, base.val))

\* impl Add for &ECs<D>
ECs_add(self, rhs) == ECs_new(self.D, BigAdd(self.val, rhs.val))

\* impl AddAssign<&ECs<D>> for ECs<D>: the value of self afterwards
ECs_add_assign(self, rhs) == ECs(self.D, BigAdd(self.val, rhs.val))

\* impl Sub for &ECs<D> (BigUint's subtraction panics below zero)
ECs_sub(self, rhs) ==
  IF BigLt(self.val, rhs.val) THEN PANIC
  ELSE ECs_new(self.D, BigSub(self.val, rhs.val))

\* impl SubAssign<&ECs<D>> for ECs<D>
ECs_sub_assign(self, rhs) ==
  IF BigLt(self.val, rhs.val) THEN PANIC
  ELSE ECs(self.D, BigSub(self.val, rhs.val))

\* variant of Mul for &ECs<D>: the product rounded up
ECs_mul_rounding_up(self, rhs) ==
  LET base == ECs_base(self.D)
  IN IF Panicked(base) THEN PANIC
     ELSE ECs_new(self.D,
                  BigDiv(BigAdd(BigMul(self.val, rhs.val), BigSub(base.val, BIG_ONE)),
                         base.val))

\* impl Mul for &ECs<D>
ECs_mul(self, rhs) ==
  LET base == ECs_base(self.D)
  IN IF Panicked(base) THEN PANIC
     ELSE ECs_new(self.D, BigDiv(BigMul(self.val, rhs.val), base.val))

\* impl MulAssign<&ECs<D>> for ECs<D>
ECs_mul_assign(self, rhs) ==
  LET base == ECs_base(self.D)
  IN IF Panicked(base) THEN PANIC
     ELSE ECs(self.D, BigDiv(BigMul(self.val, rhs.val), base.val))

\* impl Div for &ECs<D> (BigUint's division panics on a zero divisor)
ECs_div(self, rhs) ==
  LET base == ECs_base(self.D)
  IN IF Panicked(base) \/ rhs.val = BIG_ZERO THEN PANIC
     ELSE ECs_new(self.D, BigDiv(BigMul(self.val, base.val), rhs.val))

\* impl DivAssign<&ECs<D>> for ECs<D>
ECs_div_assign(self, rhs) ==
  LET base == ECs_base(self.D)
  IN IF Panicked(base) \/ rhs.val = BIG_ZERO THEN PANIC
     ELSE ECs(self.D, BigDiv(BigMul(self.val, base.val), rhs.val))

\* impl From<u64> for ECs<D> (and From<u128>)
ECs_from(D, value) == ECs_new(D, BigFrom(value))

\* impl Storable for ECs<D>: BigUint::to_bytes_le (zero is the one byte 0)
ECs_to_bytes(self) ==
  IF self.val = BIG_ZERO THEN <<0>> ELSE ToRadixLe(self.val, 256)

\* BigUint::from_bytes_le
ECs_from_bytes(D, bytes) == ECs_new(D, FromRadixLe(bytes, 256, 1))

\* Bound::Bounded { max_size: D as u32, .. }
ECs_max_size(D) == D

----------------------------------------------------------------------------
(* d.rs: the interchange record of an EDs and its bytes (candid)           *)

\* Nat on the wire: unsigned LEB128
Leb128(a) ==
  LET ds == ToRadixLe(a, 128)
  IN IF ds = <<>> THEN <<0>>
     ELSE [i \in 1..Len(ds) |-> IF i < Len(ds) THEN ds[i] + 128 ELSE ds[i]]

RECURSIVE Leb128End(_, _)
\* the index of the last byte of the LEB128 number that starts at i, 0 if
\* the bytes end before it does
Leb128End(bytes, i) ==
  IF i > Len(bytes) THEN 0
  ELSE IF bytes[i] < 128 THEN i
  ELSE Leb128End(bytes, i + 1)

\* the number in the LEB128 bytes i..j
Leb128Value(bytes, i, j) ==
  FromRadixLe([k \in 1..(j - i + 1) |-> bytes[i + k - 1] % 128], 128, 1)

\* struct EDsCandid { val: Nat, decimals: u8 }
EDsCandid(val, decimals) == [val |-> val, decimals |-> decimals]

\* impl CandidType for EDs: idl_serialize hands over an EDsCandid
EDs_idl_serialize(self) == EDsCandid(self.val, self.decimals)

\* impl Deserialize for EDs: an EDsCandid through EDs::new
EDs_deserialize(a) == EDs_new(a.val, a.decimals)

\* "DIDL", one type: record { val (field 5889761): nat; decimals (field
\* 308955842): nat8 }, one argument of that type
EDS_CANDID_HEADER ==
  <<68, 73, 68, 76, 1, 108, 2, 225, 189, 231, 2, 125, 194, 149, 169, 147, 1, 123, 1, 0>>

\* encode_one of an EDsCandid: the fields in the order of their ids
EncodeOne(a) == EDS_CANDID_HEADER \o Leb128(a.val) \o <<a.decimals>>

\* decode_one into an EDsCandid; PANIC stands for the Err
DecodeOne(bytes) ==
  LET h == Len(EDS_CANDID_HEADER)
      e == Leb128End(bytes, h + 1)
  IN IF Len(bytes) < h \/ SubSeq(bytes, 1, h) # EDS_CANDID_HEADER THEN PANIC
     ELSE IF e = 0 \/ Len(bytes) # e + 1 THEN PANIC
     ELSE [ty |-> "EDsCandid",
           rec |-> EDsCandid(Leb128Value(bytes, h + 1, e), bytes[e + 1])]

\* impl Storable for EDs
EDs_to_bytes(self) == EncodeOne(EDs_idl_serialize(self))

\* decode_one(&bytes).expect("Unable to decode")
EDs_from_bytes(bytes) ==
  LET a == DecodeOne(bytes)
  IN IF Panicked(a) THEN PANIC ELSE EDs_deserialize(a.rec)

----------------------------------------------------------------------------
(* The program using the library: it builds one value, then applies        *)
(* operations to it, each with operands built the same way.                *)

\* the named constant helpers of both types
ConstNames ==
  {"zero", "one", "f0_1", "f0_2", "f0_25", "f0_3", "f0_33", "f0_4", "f0_5",
   "f0_6", "f0_67", "f0_7", "f0_75", "f0_8", "f0_9", "two"}

EDs_const(name, decimals) ==
  CASE name = "zero"  -> EDs_zero(decimals)
    [] name = "one"   -> EDs_one(decimals)
    [] name = "f0_1"  -> EDs_f0_1(decimals)
    [] name = "f0_2"  -> EDs_f0_2(decimals)
    [] name = "f0_25" -> EDs_f0_25(decimals)
    [] name = "f0_3"  -> EDs_f0_3(decimals)
    [] name = "f0_33" -> EDs_f0_33(decimals)
    [] name = "f0_4"  -> EDs_f0_4(decimals)
    [] name = "f0_5"  -> EDs_f0_5(decimals)
    [] name = "f0_6"  -> EDs_f0_6(decimals)
    [] name = "f0_67" -> EDs_f0_67(decimals)
    [] name = "f0_7"  -> EDs_f0_7(decimals)
    [] name = "f0_75" -> EDs_f0_75(decimals)
    [] name = "f0_8"  -> EDs_f0_8(decimals)
    [] name = "f0_9"  -> EDs_f0_9(decimals)
    [] name = "two"   -> EDs_two(decimals)

ECs_const(name, D) ==
  CASE name = "zero"  -> ECs_zero(D)
    [] name = "one"   -> ECs_one(D)
    [] name = "f0_1"  -> ECs_f0_1(D)
    [] name = "f0_2"  -> ECs_f0_2(D)
    [] name = "f0_25" -> ECs_f0_25(D)
    [] name = "f0_3"  -> ECs_f0_3(D)
    [] name = "f0_33" -> ECs_f0_33(D)
    [] name = "f0_4"  -> ECs_f0_4(D)
    [] name = "f0_5"  -> ECs_f0_5(D)
    [] name = "f0_6"  -> ECs_f0_6(D)
    [] name = "f0_67" -> ECs_f0_67(D)
    [] name = "f0_7"  -> ECs_f0_7(D)
    [] name = "f0_75" -> ECs_f0_75(D)
    [] name = "f0_8"  -> ECs_f0_8(D)
    [] name = "f0_9"  -> ECs_f0_9(D)
    [] name = "two"   -> ECs_two(D)

VARIABLES
  cur,    \* the value the program holds: none yet, an EDs or an ECs
  last,   \* the last call: its name, self, operand, argument and outcome
  wire,   \* the encoded form last produced, with the value it encodes
  fuel    \* how many more operations the program applies

vars == <<cur, last, wire, fuel>>

NONE == [ty |-> "none"]

Call(ty, op, lhs, rhs, arg, out) ==
  [ty |-> ty, op |-> op, lhs |-> lhs, rhs |-> rhs, arg |-> arg, out |-> out]

\* a panic ends the program
Running == ~Panicked(last.out)

\* a constructor call: the program holds its result
Construct(ty, op, arg, out) ==
  /\ last' = Call(ty, op, NONE, NONE, arg, out)
  /\ cur' = IF Panicked(out) THEN cur ELSE out
  /\ UNCHANGED <<wire, fuel>>

\* a call on the held value: the program goes on with the result (the new
\* self of an in-place form)
Apply(op, rhs, arg, out) ==
  /\ last' = Call(cur.ty, op, cur, rhs, arg, out)
  /\ cur' = IF Panicked(out) THEN cur ELSE out
  /\ fuel' = fuel - 1
  /\ UNCHANGED wire

\* an encoding call on the held value: the encoded form goes on the wire
Encode(op, form) ==
  /\ last' = Call(cur.ty, op, cur, NONE, 0, form)
  /\ wire' = form
  /\ fuel' = fuel - 1
  /\ UNCHANGED cur

\* a call that only reads the held value
Observe(op, rhs, out) ==
  /\ last' = Call(cur.ty, op, cur, rhs, 0, out)
  /\ fuel' = fuel - 1
  /\ UNCHANGED <<cur, wire>>

\* a decoding call on what the wire holds
Decode(op, out) ==
  /\ last' = Call(wire.of.ty, op, cur, wire, 0, out)
  /\ cur' = IF Panicked(out) THEN cur ELSE out
  /\ wire' = NONE
  /\ UNCHANGED fuel

\* no value built yet
Fresh == Running /\ cur = NONE

\* a value of type ty is held and the program applies one more operation
Holds(ty) == Running /\ cur.ty = ty /\ fuel > 0

\* the wire holds the form `form` of a value of type ty
Received(ty, form) == Running /\ wire.ty = form /\ wire.of.ty = ty

ECsNew(D, val) ==
  /\ Fresh
  /\ Construct("ECs", "new", D, ECs_new(D, val))

ECsConst(name, D) ==
  /\ Fresh
  /\ Construct("ECs", name, D, ECs_const(name, D))

ECsFrom(D, value) ==
  /\ Fresh
  /\ Construct("ECs", "from", D, ECs_from(D, value))

EDsNew(val, decimals) ==
  /\ Fresh
  /\ Construct("EDs", "new", decimals, EDs_new(val, decimals))

EDsConst(name, decimals) ==
  /\ Fresh
  /\ Construct("EDs", name, decimals, EDs_const(name, decimals))

EDsFrom(value, decimals) ==
  /\ Fresh
  /\ Construct("EDs", "from", decimals, EDs_from(value, decimals))

EDsAdd(rhs) ==
  /\ Holds("EDs")
  /\ Apply("add", rhs, 0, EDs_add(cur, rhs))

EDsAddAssign(rhs) ==
  /\ Holds("EDs")
  /\ Apply("add_assign", rhs, 0, EDs_add_assign(cur, rhs))

EDsSub(rhs) ==
  /\ Holds("EDs")
  /\ Apply("sub", rhs, 0, EDs_sub(cur, rhs))

EDsSubAssign(rhs) ==
  /\ Holds("EDs")
  /\ Apply("sub_assign", rhs, 0, EDs_sub_assign(cur, rhs))

EDsMul(rhs) ==
  /\ Holds("EDs")
  /\ Apply("mul", rhs, 0, EDs_mul(cur, rhs))

EDsMulAssign(rhs) ==
  /\ Holds("EDs")
  /\ Apply("mul_assign", rhs, 0, EDs_mul_assign(cur, rhs))

EDsDiv(rhs) ==
  /\ Holds("EDs")
  /\ Apply("div", rhs, 0, EDs_div(cur, rhs))

EDsDivAssign(rhs) ==
  /\ Holds("EDs")
  /\ Apply("div_assign", rhs, 0, EDs_div_assign(cur, rhs))

EDsEq(rhs) ==
  /\ Holds("EDs")
  /\ Observe("eq", rhs, EDs_eq(cur, rhs))

EDsCmp(rhs) ==
  /\ Holds("EDs")
  /\ Observe("cmp", rhs, EDs_cmp(cur, rhs))

EDsLt(rhs) ==
  /\ Holds("EDs")
  /\ Observe("lt", rhs, EDs_lt(cur, rhs))

EDsLe(rhs) ==
  /\ Holds("EDs")
  /\ Observe("le", rhs, EDs_le(cur, rhs))

EDsMulU64(n) ==
  /\ Holds("EDs")
  /\ Apply("mul_u64", NONE, n, EDs_mul_u64(cur, n))

EDsMulAssignU64(n) ==
  /\ Holds("EDs")
  /\ Apply("mul_assign_u64", NONE, n, EDs_mul_assign_u64(cur, n))

EDsDivU64(n) ==
  /\ Holds("EDs")
  /\ Apply("div_u64", NONE, n, EDs_div_u64(cur, n))

EDsDivAssignU64(n) ==
  /\ Holds("EDs")
  /\ Apply("div_assign_u64", NONE, n, EDs_div_assign_u64(cur, n))

EDsSqrt ==
  /\ Holds("EDs")
  /\ Apply("sqrt", NONE, 0, EDs_sqrt(cur))

EDsToConst(D) ==
  /\ Holds("EDs")
  /\ Apply("to_const", NONE, D, EDs_to_const(cur, D))

EDsToDecimals(new_decimals) ==
  /\ Holds("EDs")
  /\ Apply("to_decimals", NONE, new_decimals,
           EDs_to_decimals(cur, new_decimals))

EDsIdlSerialize ==
  /\ Holds("EDs")
  /\ Encode("idl_serialize",
            [ty |-> "candid", of |-> cur, rec |-> EDs_idl_serialize(cur)])

EDsDeserialize ==
  /\ Received("EDs", "candid")
  /\ Decode("deserialize", EDs_deserialize(wire.rec))

EDsToBytes ==
  /\ Holds("EDs")
  /\ Encode("to_bytes",
            [ty |-> "bytes", of |-> cur, bytes |-> EDs_to_bytes(cur)])

EDsFromBytes ==
  /\ Received("EDs", "bytes")
  /\ Decode("from_bytes", EDs_from_bytes(wire.bytes))

ECsAdd(rhs) ==
  /\ Holds("ECs")
  /\ Apply("add", rhs, 0, ECs_add(cur, rhs))

ECsAddAssign(rhs) ==
  /\ Holds("ECs")
  /\ Apply("add_assign", rhs, 0, ECs_add_assign(cur, rhs))

ECsSub(rhs) ==
  /\ Holds("ECs")
  /\ Apply("sub", rhs, 0, ECs_sub(cur, rhs))

ECsSubAssign(rhs) ==
  /\ Holds("ECs")
  /\ Apply("sub_assign", rhs, 0, ECs_sub_assign(cur, rhs))

ECsMul(rhs) ==
  /\ Holds("ECs")
  /\ Apply("mul", rhs, 0, ECs_mul(cur, rhs))

ECsMulAssign(rhs) ==
  /\ Holds("ECs")
  /\ Apply("mul_assign", rhs, 0, ECs_mul_assign(cur, rhs))

ECsDiv(rhs) ==
  /\ Holds("ECs")
  /\ Apply("div", rhs, 0, ECs_div(cur, rhs))

ECsDivAssign(rhs) ==
  /\ Holds("ECs")
  /\ Apply("div_assign", rhs, 0, ECs_div_assign(cur, rhs))

ECsSqrt ==
  /\ Holds("ECs")
  /\ Apply("sqrt", NONE, 0, ECs_sqrt(cur))

ECsToDynamic ==
  /\ Holds("ECs")
  /\ Apply("to_dynamic", NONE, 0, ECs_to_dynamic(cur))

ECsToDecimals(D1) ==
  /\ Holds("ECs")
  /\ Apply("to_decimals", NONE, D1, ECs_to_decimals(cur, D1))

ECsToBytes ==
  /\ Holds("ECs")
  /\ Encode("to_bytes",
            [ty |-> "bytes", of |-> cur, bytes |-> ECs_to_bytes(cur)])

ECsFromBytes ==
  /\ Received("ECs", "bytes")
  /\ Decode("from_bytes", ECs_from_bytes(wire.of.D, wire.bytes))

----------------------------------------------------------------------------
(* The inputs explored                                                      *)

\* plain integers up to MaxVal, and one with several digits
MaxVal == 2
SampleVal == 1799

\* the low decimal counts; MAX_DECIMALS and the first count above it are
\* always explored with them
MaxLow == 2

\* how many operations a chain applies
MaxChain == 2

Over == MAX_DECIMALS + 1

\* decimal counts asked for at run time (u8)
Decimals(lows) == lows \cup {MAX_DECIMALS, Over}

\* decimal counts asked for as a const generic (usize): also beyond a u8
StaticDs(lows) == Decimals(lows) \cup {256 + d : d \in lows}

\* raw mantissas for a value of d decimals: fractions only, and a whole part
\* with a fraction
Mantissas(vals, d) ==
  {BigFrom(n) : n \in vals}
    \cup (IF d > MAX_DECIMALS THEN {}
          ELSE {BigAdd(BigMul(BigFrom(n), ES_BASES[d]), BigFrom(n)) : n \in vals})

\* the values the constructors give, by decimal count
EDsValues(vals, lows, names) ==
  [d \in lows \cup {MAX_DECIMALS} |->
     {EDs_new(m, d) : m \in Mantissas(vals, d)} \cup {EDs_const(n, d) : n \in names}]

ECsValues(vals, lows, names) ==
  [D \in StaticDs(lows) |->
     {ECs_new(D, m) : m \in Mantissas(vals, D)}
       \cup (IF D > MAX_DECIMALS THEN {} ELSE {ECs_const(n, D) : n \in names})]

\* what a run draws its inputs from
Inputs(vals, lows, names) ==
  [vals |-> vals, lows |-> lows, names |-> names,
   EDs |-> EDsValues(vals, lows, names), ECs |-> ECsValues(vals, lows, names)]

\* right-hand operands for the held EDs: a copy of itself, values built at
\* its decimals, and a value of each other decimal count
EDsOperands(in) ==
  IF cur.ty # "EDs" THEN {}
  ELSE LET d == cur.decimals
       IN {cur} \cup (IF d \in DOMAIN in.EDs THEN in.EDs[d] ELSE {})
                \cup {EDs_one(e) : e \in DOMAIN in.EDs \ {d}}

\* right-hand operands for the held ECs<D>: the type admits only ECs<D>
ECsOperands(in) ==
  IF cur.ty # "ECs" THEN {}
  ELSE {cur} \cup (IF cur.D \in DOMAIN in.ECs THEN in.ECs[cur.D] ELSE {})

Step(in) ==
  \/ \E D \in StaticDs(in.lows) : \E m \in Mantissas(in.vals, D) : ECsNew(D, m)
  \/ \E D \in StaticDs(in.lows) : \E n \in in.names : ECsConst(n, D)
  \/ \E D \in StaticDs(in.lows) : \E n \in in.vals : ECsFrom(D, n)
  \/ \E d \in Decimals(in.lows) : \E m \in Mantissas(in.vals, d) : EDsNew(m, d)
  \/ \E d \in Decimals(in.lows) : \E n \in in.names : EDsConst(n, d)
  \/ \E d \in Decimals(in.lows) : \E n \in in.vals : EDsFrom(n, d)
  \/ \E rhs \in EDsOperands(in) : EDsAdd(rhs)
  \/ \E rhs \in EDsOperands(in) : EDsAddAssign(rhs)
  \/ \E rhs \in EDsOperands(in) : EDsSub(rhs)
  \/ \E rhs \in EDsOperands(in) : EDsSubAssign(rhs)
  \/ \E rhs \in EDsOperands(in) : EDsMul(rhs)
  \/ \E rhs \in EDsOperands(in) : EDsMulAssign(rhs)
  \/ \E rhs \in EDsOperands(in) : EDsDiv(rhs)
  \/ \E rhs \in EDsOperands(in) : EDsDivAssign(rhs)
  \/ \E rhs \in EDsOperands(in) : EDsEq(rhs)
  \/ \E rhs \in EDsOperands(in) : EDsCmp(rhs)
  \/ \E rhs \in EDsOperands(in) : EDsLt(rhs)
  \/ \E rhs \in EDsOperands(in) : EDsLe(rhs)
  \/ \E n \in in.vals : EDsMulU64(n)
  \/ \E n \in in.vals : EDsMulAssignU64(n)
  \/ \E n \in in.vals : EDsDivU64(n)
  \/ \E n \in in.vals : EDsDivAssignU64(n)
  \/ EDsSqrt
  \/ \E D \in StaticDs(in.lows) : EDsToConst(D)
  \/ \E d \in Decimals(in.lows) : EDsToDecimals(d)
  \/ EDsIdlSerialize
  \/ EDsDeserialize
  \/ EDsToBytes
  \/ EDsFromBytes
  \/ \E rhs \in ECsOperands(in) : ECsAdd(rhs)
  \/ \E rhs \in ECsOperands(in) : ECsAddAssign(rhs)
  \/ \E rhs \in ECsOperands(in) : ECsSub(rhs)
  \/ \E rhs \in ECsOperands(in) : ECsSubAssign(rhs)
  \/ \E rhs \in ECsOperands(in) : ECsMul(rhs)
  \/ \E rhs \in ECsOperands(in) : ECsMulAssign(rhs)
  \/ \E rhs \in ECsOperands(in) : ECsDiv(rhs)
  \/ \E rhs \in ECsOperands(in) : ECsDivAssign(rhs)
  \/ ECsSqrt
  \/ ECsToDynamic
  \/ \E D1 \in StaticDs(in.lows) : ECsToDecimals(D1)
  \/ ECsToBytes
  \/ ECsFromBytes

Start(n) ==
  /\ cur = NONE
  /\ last = Call("none", "init", NONE, NONE, 0, NONE)
  /\ wire = NONE
  /\ fuel = n

\* one operation on every value the constructors give
Lows == 0..MaxLow
Wide == Inputs(0..MaxVal \cup {SampleVal}, Lows, ConstNames)
Init == Start(1)
Next == Step(Wide)
Spec == Init /\ [][Next]_vars

\* chains of operations on a few values
Narrow == Inputs({0, 1}, {0}, {"one"})
InitChain == Start(MaxChain)
NextChain == Step(Narrow)
SpecChain == InitChain /\ [][NextChain]_vars

----------------------------------------------------------------------------
(* Properties                                                               *)

\* the decimal count of a value of either type
Precision(v) == IF v.ty = "EDs" THEN v.decimals ELSE v.D

\* the last call was one of ops on a value of decimal count <= MAX_DECIMALS
\* and, if it took an operand, an operand of the same decimal count
Did(ops) ==
  /\ last.ty \in {"EDs", "ECs"}
  /\ last.op \in ops
  /\ last.lhs.ty = last.ty
  /\ Precision(last.lhs) <= MAX_DECIMALS
  /\ last.rhs.ty = last.ty => Precision(last.rhs) = Precision(last.lhs)

MulDone == Did({"mul", "mul_assign"})

\* a * b of the last multiplication
MulProduct == BigMul(last.lhs.val, last.rhs.val)

\* C1: for d in 0..=31, multiplying two values of precision d (ECs<d> or
\* EDs, pure or in place) gives the mantissa p with
\* p * 10^d <= a * b < (p + 1) * 10^d, at precision d.
MulFloors ==
  MulDone =>
    LET base == ES_BASES[Precision(last.lhs)]
        p    == last.out.val
    IN /\ ~Panicked(last.out)
       /\ last.out.ty = last.ty
       /\ Precision(last.out) = Precision(last.lhs)
       /\ cur = last.out
       /\ BigLe(BigMul(p, base), MulProduct)
       /\ BigLt(MulProduct, BigMul(BigAdd(p, BIG_ONE), base))

\* an in-place EDs product at 31 decimals that is not zero and drops digits
MulTruncated ==
  /\ MulDone
  /\ last.ty = "EDs"
  /\ last.op = "mul_assign"
  /\ last.lhs.decimals = MAX_DECIMALS
  /\ last.out.val # BIG_ZERO
  /\ BigMul(last.out.val, ES_BASES[MAX_DECIMALS]) # MulProduct

\* multiply(a, b) divided by b again, with the type's own division
MulThenDiv ==
  IF last.ty = "EDs" THEN EDs_div(last.out, last.rhs) ELSE ECs_div(last.out, last.rhs)

\* C2: for d in 0..=31 and nonzero b, divide(multiply(a, b), b) <= a.
DivOfMulBelow ==
  (MulDone /\ last.rhs.val # BIG_ZERO) =>
    /\ ~Panicked(MulThenDiv)
    /\ BigLe(MulThenDiv.val, last.lhs.val)

\* a static product whose quotient by b falls strictly below a
DivOfMulStrictlyBelow ==
  /\ MulDone
  /\ last.ty = "ECs"
  /\ last.rhs.val # BIG_ZERO
  /\ last.out.val # BIG_ZERO
  /\ BigLt(MulThenDiv.val, last.lhs.val)

\* C3: every EDs that exists has decimals <= 31, and a call asking for a
\* decimal count above 31 (new, from, a constant helper, to_decimals) fails
\* instead of returning a value.
DecimalsInRange ==
  /\ cur.ty = "EDs" => cur.decimals <= MAX_DECIMALS
  /\ last.out.ty = "EDs" => last.out.decimals <= MAX_DECIMALS
  /\ (/\ last.ty = "EDs"
      /\ last.op \in ConstNames \cup {"new", "from", "to_decimals"}
      /\ last.arg > MAX_DECIMALS) => Panicked(last.out)

BinaryOps ==
  {"add", "sub", "mul", "div", "add_assign", "sub_assign", "mul_assign", "div_assign"}

\* the last call was a binary operation between two EDs
BinaryDone == last.ty = "EDs" /\ last.op \in BinaryOps

\* C4: a binary operation between two EDs of different decimals fails,
\* gives no result and leaves the operand it was called on as it was; with
\* equal decimals a result carries those decimals.
DecimalsMustMatch ==
  BinaryDone =>
    IF last.lhs.decimals # last.rhs.decimals
    THEN Panicked(last.out) /\ cur = last.lhs
    ELSE ~Panicked(last.out) =>
           /\ last.out.ty = "EDs"
           /\ last.out.decimals = last.lhs.decimals

\* an in-place multiplication refused for operands of 31 and 2 decimals
MismatchRefused ==
  /\ BinaryDone
  /\ last.op = "mul_assign"
  /\ last.lhs.decimals = MAX_DECIMALS
  /\ last.rhs.decimals = MaxLow
  /\ last.lhs.val # BIG_ZERO
  /\ Panicked(last.out)

\* C5: with equal decimals, subtract(a, b) fails when b > a and otherwise
\* returns a - b, and divide(a, b) fails when b = 0 (ECs and EDs, pure and
\* in place).
SubDivFailures ==
  /\ (/\ last.ty \in {"EDs", "ECs"}
      /\ last.op \in {"sub", "sub_assign"}
      /\ Precision(last.lhs) = Precision(last.rhs)) =>
       IF BigLt(last.lhs.val, last.rhs.val)
       THEN Panicked(last.out) /\ cur = last.lhs
       ELSE /\ ~Panicked(last.out)
            /\ last.out.val = BigSub(last.lhs.val, last.rhs.val)
  /\ (/\ last.ty \in {"EDs", "ECs"}
      /\ last.op \in {"div", "div_assign"}
      /\ Precision(last.lhs) = Precision(last.rhs)
      /\ last.rhs.val = BIG_ZERO) => Panicked(last.out) /\ cur = last.lhs

\* to_decimals of either type
ToDecimals(v, d) ==
  IF v.ty = "EDs" THEN EDs_to_decimals(v, d) ELSE ECs_to_decimals(v, d)

\* the last call converted precision D1 <= 31 to D2 <= 31
Rescaled == Did({"to_decimals"}) /\ last.arg <= MAX_DECIMALS

\* C6: for D1, D2, D3 in 0..=31, converting D1 -> D2 -> D3 gives the
\* mantissa of D1 -> D3 when D2 >= min(D1, D3), and no more than it when
\* D2 < min(D1, D3); D1 -> D2 -> D1 with D2 < D1 gives
\* m - (m mod 10^(D1 - D2)). ECs and EDs.
RescaleComposes ==
  Rescaled =>
    /\ ~Panicked(last.out)
    /\ last.out.ty = last.ty
    /\ Precision(last.out) = last.arg
    /\ \A D3 \in Lows \cup {MAX_DECIMALS} :
         LET D1     == Precision(last.lhs)
             D2     == last.arg
             m      == last.lhs.val
             two    == ToDecimals(last.out, D3)
             direct == ToDecimals(last.lhs, D3)
         IN /\ ~Panicked(two) /\ ~Panicked(direct)
            /\ Precision(two) = D3 /\ Precision(direct) = D3
            /\ D2 >= Min(D1, D3) => two.val = direct.val
            /\ D2 < Min(D1, D3) => BigLe(two.val, direct.val)
            /\ (D3 = D1 /\ D2 < D1) =>
                 two.val = BigSub(m, BigRem(m, ES_BASES[D1 - D2]))

\* an EDs taken from 31 decimals to fewer, where going back to 31 does
\* not restore the mantissa
RescaleLosesDigits ==
  /\ Rescaled
  /\ last.ty = "EDs"
  /\ last.lhs.decimals = MAX_DECIMALS
  /\ last.arg < MAX_DECIMALS
  /\ last.out.val # BIG_ZERO
  /\ ToDecimals(last.out, MAX_DECIMALS).val # last.lhs.val

\* C7: for D in 0..=31, ECs<D>(m).to_dynamic() is the EDs (m, D) and
\* to_const::<D>() takes it back to ECs<D>(m); to_const::<D'>() on an EDs
\* whose decimals are not D' fails.
ConstDynamicRoundTrip ==
  /\ (last.ty = "ECs" /\ last.op = "to_dynamic" /\ last.lhs.D <= MAX_DECIMALS) =>
       /\ ~Panicked(last.out)
       /\ last.out = EDs(last.lhs.val, last.lhs.D)
       /\ EDs_to_const(last.out, last.lhs.D) = last.lhs
  /\ (last.ty = "EDs" /\ last.op = "to_const" /\ last.lhs.decimals # last.arg) =>
       Panicked(last.out)

\* to_dynamic of a static outcome, a failure staying a failure
Dyn(v) == IF Panicked(v) THEN PANIC ELSE ECs_to_dynamic(v)

\* two outcomes agree: both fail, or both are the same value
Agree(x, y) ==
  IF Panicked(x) \/ Panicked(y) THEN Panicked(x) /\ Panicked(y) ELSE x = y

\* the EDs operation of the name op on self and rhs
EDs_binary(op, self, rhs) ==
  CASE op = "add" -> EDs_add(self, rhs)
    [] op = "sub" -> EDs_sub(self, rhs)
    [] op = "mul" -> EDs_mul(self, rhs)
    [] op = "div" -> EDs_div(self, rhs)

\* C8: for D in 0..=31, each constant helper, add, sub, mul, div, sqrt and
\* to_decimals on ECs<D>, converted with to_dynamic(), equals the same
\* operation on the EDs of the same mantissas and D decimals, and one side
\* fails exactly when the other does.
StaticMatchesDynamic ==
  last.ty = "ECs" =>
    /\ (last.op \in ConstNames /\ last.arg <= MAX_DECIMALS) =>
         Agree(Dyn(last.out), EDs_const(last.op, last.arg))
    /\ Did({"add", "sub", "mul", "div"}) =>
         Agree(Dyn(last.out), EDs_binary(last.op, Dyn(last.lhs), Dyn(last.rhs)))
    /\ Did({"sqrt"}) => Agree(Dyn(last.out), EDs_sqrt(Dyn(last.lhs)))
    /\ (Did({"to_decimals"}) /\ last.arg < 256) =>
         Agree(Dyn(last.out), EDs_to_decimals(Dyn(last.lhs), last.arg))

\* C9: decoding what an EDs was encoded to (the interchange record, or the
\* stored bytes) succeeds and gives back the same val and decimals, for
\* every EDs the operations can produce.
EncodingRoundTrips ==
  (last.ty = "EDs" /\ last.op \in {"deserialize", "from_bytes"}) =>
    /\ ~Panicked(last.out)
    /\ last.out = last.rhs.of

\* C10: for d in 0..=31, sqrt gives r * 10^d with
\* r^2 <= floor(m / 10^d) < (r + 1)^2, at the same precision (ECs and EDs).
SqrtOfWhole ==
  Did({"sqrt"}) =>
    LET base  == ES_BASES[Precision(last.lhs)]
        m     == last.lhs.val
        whole == BigDiv(m, base)
        r     == BigDiv(last.out.val, base)
    IN /\ ~Panicked(last.out)
       /\ last.out.ty = last.ty
       /\ Precision(last.out) = Precision(last.lhs)
       /\ BigLe(BigMul(whole, base), m)
       /\ BigLt(m, BigMul(BigAdd(whole, BIG_ONE), base))
       /\ last.out.val = BigMul(r, base)
       /\ BigLe(BigMul(r, r), whole)
       /\ BigLt(whole, BigMul(BigAdd(r, BIG_ONE), BigAdd(r, BIG_ONE)))

\* a root of 2 or more, of a value at 31 decimals whose whole part is no
\* square and whose fraction is not zero
SqrtDropsFraction ==
  /\ Did({"sqrt"})
  /\ Precision(last.lhs) = MAX_DECIMALS
  /\ BigLe(BigMul(<<2>>, ES_BASES[MAX_DECIMALS]), last.out.val)
  /\ BigMul(BigDiv(last.lhs.val, ES_BASES[MAX_DECIMALS]), ES_BASES[MAX_DECIMALS])
       # last.lhs.val
  /\ BigMul(last.out.val, last.out.val)
       # BigMul(BigMul(BigDiv(last.lhs.val, ES_BASES[MAX_DECIMALS]),
                       ES_BASES[MAX_DECIMALS]), ES_BASES[MAX_DECIMALS])

\* C11: for D in 0..=31 the stored bytes of an ECs<D> (the little-endian
\* bytes of its mantissa) are no longer than the max_size the type declares
\* for them, D bytes.
StoredWithinBound ==
  (last.ty = "ECs" /\ last.op = "to_bytes" /\ last.lhs.D <= MAX_DECIMALS) =>
    Len(last.out.bytes) <= ECs_max_size(last.lhs.D)

\* the last call compared two EDs
Compared == last.ty = "EDs" /\ last.op \in {"eq", "cmp", "lt", "le"}

\* a before b in the lexicographic order on (val, decimals)
Before(a, b) ==
  \/ BigLt(a.val, b.val)
  \/ a.val = b.val /\ a.decimals < b.decimals

\* C12: comparing two EDs (==, <, <=, cmp) never fails, whatever their
\* decimals; the order is lexicographic on (val, decimals), val first, so
\* with equal decimals it is the order of the mantissas, and two EDs are
\* equal only when val and decimals are both equal.
ComparesValThenDecimals ==
  Compared =>
    LET a == last.lhs
        b == last.rhs
    IN /\ ~Panicked(last.out)
       /\ cur = a
       /\ last.op = "eq" =>
            last.out.b = (a.val = b.val /\ a.decimals = b.decimals)
       /\ last.op = "lt" =>
            /\ last.out.b = Before(a, b)
            /\ a.decimals = b.decimals => last.out.b = BigLt(a.val, b.val)
       /\ last.op = "le" =>
            /\ last.out.b = ~Before(b, a)
            /\ a.decimals = b.decimals => last.out.b = BigLe(a.val, b.val)
       /\ last.op = "cmp" =>
            /\ last.out.ord = (IF Before(a, b) THEN -1 ELSE IF Before(b, a) THEN 1 ELSE 0)
            /\ last.out.ord = 0 <=> a = b

\* a < b answered for a of fewer decimals and the smaller mantissa, though
\* a / 10^decimals is the greater number
LessAcrossDecimals ==
  /\ Compared
  /\ last.op = "lt"
  /\ last.out.b
  /\ last.lhs.decimals < last.rhs.decimals
  /\ last.rhs.decimals <= MAX_DECIMALS
  /\ BigLt(last.lhs.val, last.rhs.val)
  /\ BigLt(last.rhs.val,
           BigMul(last.lhs.val, ES_BASES[last.rhs.decimals - last.lhs.decimals]))

====
